---- MODULE Spec2Model ----
(***************************************************************************)
(* Model of src/systems.js: the Systems object (calculateDerivedStats,     *)
(* resolveCombatTurn, simulateCombat, generateLoot).                       *)
(*                                                                         *)
(* Numbers.  JavaScript numbers are modelled in fixed point:               *)
(*   - hp, maxHp, currentHP, atk and damage are in hundredths of a hit     *)
(*     point (the precision the combat log prints with toFixed(2));        *)
(*   - WC and SC are in units of 1/100000, AC in units of 1/10000,         *)
(*     hitChance in units of 1/1000 and critChance in units of 1/100,      *)
(*     which makes the products of line 66..94 exact;                      *)
(*   - a division truncates to the unit of its result.                     *)
(* A property that is absent on an object (undefined) is the empty tuple   *)
(* <<>>, a present number n is <<n>>.                                      *)
(*                                                                         *)
(* Objects.  Players and monsters are objects that the functions mutate    *)
(* through references, so the model keeps a heap from references to        *)
(* objects and every function takes and returns references.                *)
(***************************************************************************)
EXTENDS Integers, Sequences, FiniteSets, TLC

VARIABLES heap, clock, lastCall, edits, turns, lootCalls

vars == <<heap, clock, lastCall, edits, turns, lootCalls>>

(***************************************************************************)
(* Bounds of the model.                                                    *)
(***************************************************************************)
MaxEdits == 1
MaxTurns == 3
MaxLoot == 3
MaxClock == 1
MaxIterations == 128

(***************************************************************************)
(* undefined / present values                                              *)
(***************************************************************************)
Undefined == <<>>
Num(n) == <<n>>
Val(x) == x[1]
Max(a, b) == IF a >= b THEN a ELSE b

(***************************************************************************)
(* Content tables imported from ./gdd.js (line 6).  The file is not part   *)
(* of the sources; the tables below are small well-formed instances of the *)
(* shapes the code reads.                                                  *)
(***************************************************************************)
RaceKeys == {"Human", "Elf", "Spellblade", "Troll", "Vampire", "Revenant"}

races ==
  [r \in RaceKeys |->
     CASE r = "Human"      -> [raceName |-> "Human", primaryStat |-> "dex",
                               archetype |-> "True Fighter", specialCase |-> FALSE]
       [] r = "Elf"        -> [raceName |-> "Elf", primaryStat |-> "wis",
                               archetype |-> "True Caster", specialCase |-> FALSE]
       [] r = "Spellblade" -> [raceName |-> "Spellblade", primaryStat |-> "dex",
                               archetype |-> "Hybrid", specialCase |-> FALSE]
       [] r = "Troll"      -> [raceName |-> "Troll", primaryStat |-> "dex",
                               archetype |-> "True Fighter", specialCase |-> TRUE]
       [] r = "Vampire"    -> [raceName |-> "Vampire", primaryStat |-> "wis",
                               archetype |-> "True Caster", specialCase |-> TRUE]
       [] r = "Revenant"   -> [raceName |-> "Revenant", primaryStat |-> "wis",
                               archetype |-> "Hybrid", specialCase |-> TRUE]]

\* a race key that is not in the race table
UnknownRace == "Wraith"

\* items.baseItemTemplates: id -> subType ("ghost" has no template)
TemplateIds == {"sword", "wand", "plate", "relic"}

baseItemTemplates ==
  [b \in TemplateIds |->
     CASE b = "sword" -> [id |-> "sword", name |-> "Sword", subType |-> "Weapon"]
       [] b = "wand"  -> [id |-> "wand", name |-> "Wand", subType |-> "Focus"]
       [] b = "plate" -> [id |-> "plate", name |-> "Plate", subType |-> "Armor"]
       [] b = "relic" -> [id |-> "relic", name |-> "Relic", subType |-> "Trinket"]]

\* progression.dropperSlotModifiers: subType -> modifier ("Trinket" has none).
\* specialBonus.value is in tenths.
SlotSubTypes == {"Weapon", "Focus", "Armor"}

dropperSlotModifiers ==
  [s \in SlotSubTypes |->
     CASE s = "Weapon" -> [statType |-> "WC", statProportionality |-> 1,
                           specialBonus |-> [stat |-> "WC/SC", value |-> 1]]
       [] s = "Focus"  -> [statType |-> "SC", statProportionality |-> 1,
                           specialBonus |-> [stat |-> "Hit Chance", value |-> 1]]
       [] s = "Armor"  -> [statType |-> "AC", statProportionality |-> 2,
                           specialBonus |-> [stat |-> "", value |-> 0]]]

\* progression.dropperTiers: tier -> classValue (tier 9 is not in the table)
TierIds == {1, 2}

dropperTiers == [t \in TierIds |-> [tier |-> t, classValue |-> 5 * t]]

\* progression.gemGradeTiers
ZoneIds == {"Z01", "Z26", "Z99"}

gemGradeTiers ==
  << [gradeTier |-> 1, correspondingZone |-> {"Z01"}],
     [gradeTier |-> 2, correspondingZone |-> {"Z26"}] >>

\* gddConstants
PLAYER_DAMAGE_CONSTANT == 10
\* in tenths
HYBRID_SPELLSTRIKE_MULTIPLIER == 6
\* in tenths
MONSTER_DAMAGE_AC_REDUCTION_FACTOR == 5
\* in hundredths
ECHO_QM == 50
SHADOW_QM_MIN == 60
SHADOW_QM_MAX == 90

(***************************************************************************)
(* Helpers over arrays and strings                                         *)
(***************************************************************************)
MinOf(S) == CHOOSE x \in S : \A y \in S : x <= y

\* Array.prototype.find on the inventory, by instance id (lines 34, 242):
\* the first item with that id, or undefined
FindByInstanceId(inventory, instanceId) ==
  LET hits == {i \in 1..Len(inventory) : inventory[i].instanceId = instanceId}
  IN IF hits = {} THEN Undefined ELSE <<inventory[MinOf(hits)]>>

\* String.prototype.toUpperCase on a primaryStat (line 60)
ToUpperCase(s) ==
  CASE s = "dex" -> "DEX"
    [] s = "wis" -> "WIS"
    [] s = "vit" -> "VIT"
    [] s = "str" -> "STR"
    [] OTHER -> s

Slots == {"weapon", "offhand", "armor"}

\* an equipment slot that holds no instance id (line 32)
NoId == <<"", 0>>

RECURSIVE SumOver(_, _)
SumOver(f, S) ==
  IF S = {} THEN 0
  ELSE LET x == CHOOSE y \in S : TRUE IN f[x] + SumOver(f, S \ {x})

(***************************************************************************)
(* calculateDerivedStats, lines 16..103                                    *)
(***************************************************************************)
NoGear == [AC |-> 0, WC |-> 0, SC |-> 0, hit |-> 0, wcsc |-> 0]

\* one iteration of the loop over player.equipment (lines 30..54): what the
\* item in the slot adds to the totals, nothing when a lookup fails
SlotGear(player, slotName) ==
  LET instanceId == player.equipment[slotName]
      item == FindByInstanceId(player.inventory, instanceId)
  IN IF instanceId = NoId THEN NoGear
     ELSE IF item = Undefined THEN NoGear
     ELSE IF Val(item).baseItemId \notin TemplateIds THEN NoGear
     ELSE LET baseItem == baseItemTemplates[Val(item).baseItemId]
              hasSlot == baseItem.subType \in SlotSubTypes
          IN IF Val(item).tier \notin TierIds THEN NoGear
             ELSE IF ~hasSlot THEN NoGear
             ELSE LET slotData == dropperSlotModifiers[baseItem.subType]
                      tierData == dropperTiers[Val(item).tier]
                      itemStatValue == tierData.classValue * slotData.statProportionality
                  IN [AC |-> IF slotData.statType = "AC" THEN itemStatValue ELSE 0,
                      WC |-> IF slotData.statType = "WC" THEN itemStatValue ELSE 0,
                      SC |-> IF slotData.statType = "SC" THEN itemStatValue ELSE 0,
                      hit |-> IF slotData.specialBonus.stat = "Hit Chance"
                              THEN slotData.specialBonus.value ELSE 0,
                      wcsc |-> IF slotData.specialBonus.stat = "WC/SC"
                               THEN slotData.specialBonus.value ELSE 0]

\* the totals after the loop (lines 24..54); the multiplier starts at 1.0
GearTotals(player) ==
  LET g == [s \in Slots |-> SlotGear(player, s)]
  IN [totalGearAC |-> SumOver([s \in Slots |-> g[s].AC], Slots),
      totalGearWC |-> SumOver([s \in Slots |-> g[s].WC], Slots),
      totalGearSC |-> SumOver([s \in Slots |-> g[s].SC], Slots),
      bonusHitChance |-> SumOver([s \in Slots |-> g[s].hit], Slots),
      bonusWcScMultiplier |-> 10 + SumOver([s \in Slots |-> g[s].wcsc], Slots)]

\* totalGear * (1 + scalingStat * 0.0055), lines 66, 70, 73, 74
Scaled(totalGear, scalingStat) == totalGear * (10000 + scalingStat * 55)

\* the scaling stat of the Hybrid branch, lines 73..74
HybridScalingStat(racialData, baseStats) ==
  baseStats[ToUpperCase(racialData.primaryStat)]

\* the scaling stat of the True Fighter and True Caster branches, lines 65, 69
TrueScalingStat(racialData, baseStats) ==
  IF racialData.specialCase THEN baseStats.VIT
  ELSE baseStats[ToUpperCase(racialData.primaryStat)]

\* the hp reconciliation, lines 97..99
ReconcileHp(hp, maxHp) ==
  IF hp = Undefined \/ Val(hp) > maxHp THEN Num(maxHp) ELSE hp

EmptyObject ==
  [maxHp |-> Undefined, AC |-> Undefined, WC |-> Undefined, SC |-> Undefined,
   hitChance |-> Undefined, critChance |-> Undefined]

\* the derivedStats object built by lines 56..94
DerivedStatsOf(player) ==
  LET racialData == races[player.race]
      t == GearTotals(player)
      primaryStatKey == ToUpperCase(racialData.primaryStat)
      finalWC ==
        CASE racialData.archetype = "True Fighter" ->
               Scaled(t.totalGearWC, TrueScalingStat(racialData, player.baseStats))
          [] racialData.archetype = "Hybrid" ->
               Scaled(t.totalGearWC, HybridScalingStat(racialData, player.baseStats))
          [] OTHER -> 0
      finalSC ==
        CASE racialData.archetype = "True Caster" ->
               Scaled(t.totalGearSC, TrueScalingStat(racialData, player.baseStats))
          [] racialData.archetype = "Hybrid" ->
               Scaled(t.totalGearSC, HybridScalingStat(racialData, player.baseStats))
          [] OTHER -> 0
      hitStat == IF primaryStatKey \in {"DEX", "VIT"}
                 THEN player.baseStats.DEX ELSE player.baseStats.WIS
      hitChance == 90000 + hitStat * 50
  IN [maxHp |-> Num((100 + player.baseStats.VIT * 10) * 100),
      AC |-> Num(t.totalGearAC * (10000 + player.baseStats.VIT * 75)),
      WC |-> Num(finalWC * t.bonusWcScMultiplier),
      SC |-> Num(finalSC * t.bonusWcScMultiplier),
      hitChance |-> Num(hitChance + (hitChance * t.bonusHitChance) \div 10),
      critChance |-> Num(500 + hitStat)]

\* the whole function on the player object
CalcPlayer(player) ==
  IF player.race \notin RaceKeys
  THEN [player EXCEPT !.derivedStats = <<EmptyObject>>]
  ELSE LET ds == DerivedStatsOf(player)
       IN [player EXCEPT !.derivedStats = <<ds>>,
                         !.hp = ReconcileHp(player.hp, Val(ds.maxHp)),
                         !.stats = <<ds>>]

calculateDerivedStats(h, p) == [h EXCEPT ![p] = CalcPlayer(h[p])]

(***************************************************************************)
(* resolveCombatTurn, lines 131..163.  The function throws a TypeError     *)
(* when races[player.race] is undefined (line 137) or player.derivedStats  *)
(* is undefined (lines 138..144).                                          *)
(***************************************************************************)
ResolveThrows(h, p) ==
  h[p].race \notin RaceKeys \/ h[p].derivedStats = Undefined

\* lines 137..145, in hundredths of a hit point
PlayerDamage(player, monster) ==
  LET racialData == races[player.race]
      playerStats == Val(player.derivedStats)
      monsterAC == monster.def
  IN CASE racialData.archetype = "Hybrid" ->
            ((PLAYER_DAMAGE_CONSTANT * Val(playerStats.WC)
              + PLAYER_DAMAGE_CONSTANT * Val(playerStats.SC))
             * HYBRID_SPELLSTRIKE_MULTIPLIER) \div (monsterAC * 10000)
       [] racialData.archetype = "True Fighter" ->
            (PLAYER_DAMAGE_CONSTANT * Val(playerStats.WC)) \div (monsterAC * 1000)
       [] racialData.archetype = "True Caster" ->
            (PLAYER_DAMAGE_CONSTANT * Val(playerStats.SC)) \div (monsterAC * 1000)
       [] OTHER -> 0

\* lines 153..154, in hundredths of a hit point
MonsterDamage(player, monster) ==
  Max(0, monster.atk
         - (Val(Val(player.derivedStats).AC) * MONSTER_DAMAGE_AC_REDUCTION_FACTOR)
           \div 1000)

\* a retaliation that forgets to clamp the player's hp at 0
RetaliateUnclamped(h1, p, m, playerDamage) ==
  LET monsterDamage == MonsterDamage(h1[p], h1[m])
      h2 == [h1 EXCEPT ![p].hp = Num(Val(@) - monsterDamage)]
  IN [heap |-> h2,
      status |-> IF Val(h2[p].hp) <= 0 THEN "DEFEAT" ELSE "CONTINUE",
      damageDealt |-> playerDamage, damageTaken |-> monsterDamage]

\* the turn when the monster survives the player's hit, lines 153..162
Retaliate(h1, p, m, playerDamage) ==
  LET monsterDamage == MonsterDamage(h1[p], h1[m])
      h2 == [h1 EXCEPT ![p].hp = Num(Val(@) - monsterDamage)]
  IN IF Val(h2[p].hp) <= 0
     THEN [heap |-> [h2 EXCEPT ![p].hp = Num(0)], status |-> "DEFEAT",
           damageDealt |-> playerDamage, damageTaken |-> monsterDamage]
     ELSE [heap |-> h2, status |-> "CONTINUE",
           damageDealt |-> playerDamage, damageTaken |-> monsterDamage]

\* a turn in which the monster strikes back before its death is noticed
resolveCombatTurnStrikeBack(h, p, m) ==
  LET playerDamage == PlayerDamage(h[p], h[m])
      h1 == [h EXCEPT ![m].currentHP = Num(Val(@) - playerDamage)]
      back == Retaliate(h1, p, m, playerDamage)
  IN IF Val(h1[m].currentHP) <= 0
     THEN [heap |-> [back.heap EXCEPT ![m].currentHP = Num(0)],
           status |-> "VICTORY", damageDealt |-> playerDamage,
           damageTaken |-> back.damageTaken]
     ELSE back

\* the whole turn on the objects at references p and m
resolveCombatTurn(h, p, m) ==
  LET playerDamage == PlayerDamage(h[p], h[m])
      h1 == [h EXCEPT ![m].currentHP = Num(Val(@) - playerDamage)]
  IN IF Val(h1[m].currentHP) <= 0
     THEN [heap |-> [h1 EXCEPT ![m].currentHP = Num(0)], status |-> "VICTORY",
           damageDealt |-> playerDamage, damageTaken |-> 0]
     ELSE Retaliate(h1, p, m, playerDamage)

(***************************************************************************)
(* simulateCombat, lines 171..208                                          *)
(***************************************************************************)
\* a copy of the reference instead of a copy of the object
AliasOf(src, fresh) == src

\* JSON.parse(JSON.stringify(x)) into a fresh object (lines 172..173): the
\* round trip drops absent properties and keeps finite numbers, strings,
\* arrays and nested objects, so the copy has the fields of the original;
\* it returns the reference of the copy
DeepClone(src, fresh) == fresh

\* the turn cap of lines 180 and 198
TurnCap == 100

\* a loop that makes one turn more
LoopConditionOffByOne(turn) == turn <= TurnCap + 1

\* the loop condition of line 180
LoopCondition(turn) == turn <= TurnCap

\* the test of line 198
Exceeded(turn) == turn > TurnCap

PlayerLine(turn, r, h, m) ==
  [kind |-> "playerAttack", turn |-> turn, damage |-> r.damageDealt,
   hpAfter |-> Val(h[m].currentHP)]

MonsterLine(turn, r, h, p) ==
  [kind |-> "monsterAttack", turn |-> turn, damage |-> r.damageTaken,
   hpAfter |-> Val(h[p].hp)]

Note(kind, turn) == [kind |-> kind, turn |-> turn, damage |-> 0, hpAfter |-> 0]

\* one iteration of the loop body, lines 181..195, on the loop's variables;
\* done says that the iteration left the loop by a break
Iteration(st, p, m) ==
  LET result == resolveCombatTurn(st.heap, p, m)
      log1 == Append(st.log, PlayerLine(st.turn, result, result.heap, m))
      log2 == Append(log1, MonsterLine(st.turn, result, result.heap, p))
  IN IF result.status = "VICTORY"
     THEN [heap |-> result.heap, turn |-> st.turn, status |-> "VICTORY",
           log |-> Append(log1, Note("monsterDefeated", st.turn)),
           calls |-> st.calls + 1, done |-> TRUE]
     ELSE IF result.status = "DEFEAT"
     THEN [heap |-> result.heap, turn |-> st.turn, status |-> "DEFEAT",
           log |-> Append(log2, Note("playerDefeated", st.turn)),
           calls |-> st.calls + 1, done |-> TRUE]
     ELSE [heap |-> result.heap, turn |-> st.turn + 1, status |-> "CONTINUE",
           log |-> log2, calls |-> st.calls + 1, done |-> FALSE]

\* lines 180..196, at most n iterations of the loop: the loop's variables
\* when the loop is left or the n iterations are made.  The iterations are made
\* in two halves, one after the other.
RECURSIVE Iterations(_, _, _, _)
Iterations(st, p, m, n) ==
  IF n = 0 \/ st.done \/ ~LoopCondition(st.turn) THEN st
  ELSE IF n = 1 THEN Iteration(st, p, m)
  ELSE CHOOSE end \in {Iterations(mid, p, m, n - n \div 2) :
                         mid \in {Iterations(st, p, m, n \div 2)}} : TRUE

\* the loop of lines 180..196; MaxIterations is above the number of
\* iterations the loop condition allows
CombatLoop(st, p, m) == Iterations(st, p, m, MaxIterations)

\* the whole function: the heap after the call and the returned object, whose
\* finalState holds the references of the simulated player and monster
simulateCombat(h, player, monster) ==
  LET simPlayer == DeepClone(player, "simPlayer")
      simMonster == DeepClone(monster, "simMonster")
      h0 == [h EXCEPT ![simPlayer] = h[player], ![simMonster] = h[monster]]
      h1 == [h0 EXCEPT ![simMonster].currentHP = Num(h0[simMonster].hp)]
      end == CombatLoop([heap |-> h1, turn |-> 1, status |-> "",
                         log |-> <<Note("start", 0)>>, calls |-> 0,
                         done |-> FALSE], simPlayer, simMonster)
  IN IF Exceeded(end.turn)
     THEN [heap |-> end.heap, outcome |-> "STALEMATE",
           finalState |-> [player |-> simPlayer, monster |-> simMonster],
           log |-> Append(end.log, Note("halt", end.turn)), calls |-> end.calls]
     ELSE [heap |-> end.heap, outcome |-> end.status,
           finalState |-> [player |-> simPlayer, monster |-> simMonster],
           log |-> end.log, calls |-> end.calls]

(***************************************************************************)
(* generateLoot, lines 217..266.  The random draws and the clock reading   *)
(* are inputs: gemRoll and shadowRoll say whether Math.random() fell below *)
(* the drop chance, pick is the index drawn at line 246, randomQM the      *)
(* multiplier drawn at line 256, now the value of Date.now().              *)
(***************************************************************************)
SlotOrder == <<"weapon", "offhand", "armor">>

\* lines 227..228
GemGradeTier(currentZoneId) ==
  LET hits == {i \in 1..Len(gemGradeTiers) :
                 currentZoneId \in gemGradeTiers[i].correspondingZone}
  IN IF hits = {} THEN 1 ELSE gemGradeTiers[MinOf(hits)].gradeTier

\* lines 241..243, as a sequence of items
EquippedDroppers(player) ==
  LET found == [i \in 1..Len(SlotOrder) |->
                  FindByInstanceId(player.inventory, player.equipment[SlotOrder[i]])]
      kept == SelectSeq(found, LAMBDA x : x # Undefined /\ Val(x).type = "Dropper")
  IN [i \in 1..Len(kept) |-> Val(kept[i])]

\* a lookup that forgets to compare the base item
AnyShadow(inventory, baseItemId) ==
  \E i \in 1..Len(inventory) : inventory[i].type = "Shadow"

\* line 248
ExistingShadow(inventory, baseItemId) ==
  \E i \in 1..Len(inventory) :
     inventory[i].baseItemId = baseItemId /\ inventory[i].type = "Shadow"

\* the instance id of a new item, lines 252 and 257
NewInstanceId(prefix, now) == <<prefix, now>>

\* lines 250..260: the item that is created
NewItem(player, randomEquippedItem, randomQM, now) ==
  IF ExistingShadow(player.inventory, randomEquippedItem.baseItemId)
  THEN [randomEquippedItem EXCEPT !.instanceId = NewInstanceId("echo", now),
                                  !.type = "Echo",
                                  !.qualityMultiplier = Num(ECHO_QM)]
  ELSE [randomEquippedItem EXCEPT !.instanceId = NewInstanceId("shadow", now),
                                  !.type = "Shadow",
                                  !.qualityMultiplier = Num(randomQM)]

\* lines 240..263 on the player object; the name lookup of lines 253 and 258
\* throws a TypeError, before the push, when the template is missing
ShadowDrop(player, shadowRoll, pick, randomQM, now) ==
  LET equippedDroppers == EquippedDroppers(player)
      randomEquippedItem == equippedDroppers[pick]
      newItem == NewItem(player, randomEquippedItem, randomQM, now)
  IN IF ~shadowRoll \/ Len(equippedDroppers) = 0
     THEN [player |-> player, thrown |-> "", messages |-> <<>>]
     ELSE IF newItem.baseItemId \notin TemplateIds
     THEN [player |-> player, thrown |-> "TypeError", messages |-> <<>>]
     ELSE [player |-> [player EXCEPT !.inventory = Append(@, newItem)],
           thrown |-> "",
           messages |-> <<[kind |-> newItem.type, base |-> newItem.baseItemId]>>]

\* the whole function on the player object; `gems` is not among the names
\* imported at line 6, so line 230 throws a ReferenceError
LootPlayer(player, monster, currentZoneId, gemRoll, shadowRoll, pick, randomQM, now) ==
  LET p1 == [player EXCEPT !.gold = @ + monster.gold, !.xp = @ + monster.xp]
      first == <<[kind |-> "reward", base |-> ""]>>
      drop == ShadowDrop(p1, shadowRoll, pick, randomQM, now)
  IN IF gemRoll
     THEN [player |-> p1, thrown |-> "ReferenceError", messages |-> <<>>]
     ELSE IF drop.thrown # ""
     THEN [player |-> drop.player, thrown |-> drop.thrown, messages |-> <<>>]
     ELSE [player |-> drop.player, thrown |-> "",
           messages |-> first \o drop.messages]

(***************************************************************************)
(* The players and monsters the functions are called with.  Instance ids   *)
(* are pairs <<prefix, number>>, as in `shadow_${Date.now()}`.             *)
(***************************************************************************)
Item(prefix, n, baseItemId, tier, type, qm) ==
  [instanceId |-> <<prefix, n>>, baseItemId |-> baseItemId, tier |-> tier,
   type |-> type, qualityMultiplier |-> qm]

Loadouts ==
  { \* three equipped Droppers, no Shadow owned
    [inventory |-> << Item("item", 1, "sword", 2, "Dropper", Undefined),
                      Item("item", 2, "wand", 1, "Dropper", Undefined),
                      Item("item", 3, "plate", 1, "Dropper", Undefined) >>,
     equipment |-> [weapon |-> <<"item", 1>>, offhand |-> <<"item", 2>>,
                    armor |-> <<"item", 3>>]],
    \* a Shadow of the equipped sword is owned; the off-hand item has no
    \* template; the armor slot names an item that is not in the inventory
    [inventory |-> << Item("item", 1, "sword", 1, "Dropper", Undefined),
                      Item("shadow", 0, "sword", 1, "Shadow", Num(70)),
                      Item("item", 5, "ghost", 1, "Dropper", Undefined) >>,
     equipment |-> [weapon |-> <<"item", 1>>, offhand |-> <<"item", 5>>,
                    armor |-> <<"item", 9>>]],
    \* no equipped Dropper: an equipped Shadow of a tier that is not in the
    \* tier table, an equipped Echo whose subtype has no slot modifier, an
    \* empty slot
    [inventory |-> << Item("shadow", 0, "wand", 9, "Shadow", Num(80)),
                      Item("echo", 0, "relic", 1, "Echo", Num(ECHO_QM)),
                      Item("item", 3, "plate", 2, "Dropper", Undefined) >>,
     equipment |-> [weapon |-> <<"shadow", 0>>, offhand |-> <<"echo", 0>>,
                    armor |-> NoId]] }

Monsters ==
  { [name |-> "Rat", hp |-> 3000, atk |-> 2500, def |-> 5, xp |-> 10, gold |-> 5,
     currentHP |-> Undefined],
    [name |-> "Ogre", hp |-> 500000, atk |-> 30000, def |-> 10, xp |-> 40,
     gold |-> 25, currentHP |-> Undefined],
    [name |-> "Golem", hp |-> 100000, atk |-> 100, def |-> 2000, xp |-> 90,
     gold |-> 60, currentHP |-> Undefined] }

NewPlayer(race, hp, loadout) ==
  [name |-> "Hero", race |-> race,
   baseStats |-> [STR |-> 5, DEX |-> 10, WIS |-> 20, VIT |-> 30],
   equipment |-> loadout.equipment, inventory |-> loadout.inventory,
   gold |-> 0, xp |-> 0, hp |-> hp, derivedStats |-> Undefined,
   stats |-> Undefined, gems |-> <<>>]

\* the hp a stored player document may carry: none, a negative one, one
\* above every maxHp
StoredHp == {Undefined, Num(-500), Num(90000)}

Null == [name |-> "null"]

NoCall ==
  [op |-> "", thrown |-> "", status |-> "", damageDealt |-> 0, damageTaken |-> 0,
   finalState |-> [player |-> "", monster |-> ""], log |-> <<>>, calls |-> 0,
   messages |-> <<>>, args |-> <<>>]

Heap0(player, monster) ==
  [r \in {"player", "monster", "foe", "simPlayer", "simMonster"} |->
     CASE r = "player" -> player
       [] r = "monster" -> monster
       [] r = "foe" -> [monster EXCEPT !.currentHP = Num(monster.hp)]
       [] OTHER -> Null]

Init ==
  /\ \E race \in RaceKeys \cup {UnknownRace}, hp \in StoredHp,
        loadout \in Loadouts, monster \in Monsters :
        heap = Heap0(NewPlayer(race, hp, loadout), monster)
  /\ clock = 1
  /\ lastCall = NoCall
  /\ edits = 0
  /\ turns = 0
  /\ lootCalls = 0

(***************************************************************************)
(* Actions of the combat specification                                     *)
(***************************************************************************)
CalculateDerivedStats ==
  /\ heap' = calculateDerivedStats(heap, "player")
  /\ lastCall' = [NoCall EXCEPT !.op = "calculateDerivedStats"]
  /\ UNCHANGED <<clock, edits, turns, lootCalls>>

ResolveCombatTurn ==
  /\ turns < MaxTurns
  /\ turns' = turns + 1
  /\ IF ResolveThrows(heap, "player")
     THEN /\ lastCall' = [NoCall EXCEPT !.op = "resolveCombatTurn",
                                        !.thrown = "TypeError"]
          /\ UNCHANGED heap
     ELSE LET r == resolveCombatTurn(heap, "player", "foe")
          IN /\ heap' = r.heap
             /\ lastCall' = [NoCall EXCEPT !.op = "resolveCombatTurn",
                                           !.status = r.status,
                                           !.damageDealt = r.damageDealt,
                                           !.damageTaken = r.damageTaken]
  /\ UNCHANGED <<clock, edits, lootCalls>>

SimulateCombat ==
  /\ IF ResolveThrows(heap, "player")
     THEN /\ lastCall' = [NoCall EXCEPT !.op = "simulateCombat",
                                        !.thrown = "TypeError"]
          /\ UNCHANGED heap
     ELSE \E r \in {simulateCombat(heap, "player", "monster")} :
             /\ heap' = r.heap
             /\ lastCall' = [NoCall EXCEPT !.op = "simulateCombat",
                                           !.status = r.outcome,
                                           !.finalState = r.finalState,
                                           !.log = r.log,
                                           !.calls = r.calls]
  /\ UNCHANGED <<clock, edits, turns, lootCalls>>

\* changes the callers make to the player between calls
StatEdits == {<<"VIT", 0>>, <<"DEX", 40>>}

SetBaseStat ==
  /\ edits < MaxEdits
  /\ \E e \in StatEdits :
        heap' = [heap EXCEPT !["player"].baseStats[e[1]] = e[2]]
  /\ lastCall' = [NoCall EXCEPT !.op = "edit"]
  /\ edits' = edits + 1
  /\ UNCHANGED <<clock, turns, lootCalls>>

SetEquipment ==
  /\ edits < MaxEdits
  /\ \E slot \in Slots, i \in 0..Len(heap["player"].inventory) :
        heap' = [heap EXCEPT !["player"].equipment[slot] =
                   IF i = 0 THEN NoId ELSE heap["player"].inventory[i].instanceId]
  /\ lastCall' = [NoCall EXCEPT !.op = "edit"]
  /\ edits' = edits + 1
  /\ UNCHANGED <<clock, turns, lootCalls>>

(***************************************************************************)
(* Actions of the loot specification                                       *)
(***************************************************************************)
\* the values randomQM can take at line 256
QMDraws == {SHADOW_QM_MIN, SHADOW_QM_MAX - 1}

GenerateLoot ==
  /\ lootCalls < MaxLoot
  /\ \E currentZoneId \in ZoneIds, gemRoll \in BOOLEAN, shadowRoll \in BOOLEAN :
       LET p1 == heap["player"]
           n == Len(EquippedDroppers(p1))
           drawn == ~gemRoll /\ shadowRoll /\ n > 0
       IN \E pick \in (IF drawn THEN 1..n ELSE {1}) :
          \E randomQM \in (IF drawn /\ ~ExistingShadow(p1.inventory,
                                         EquippedDroppers(p1)[pick].baseItemId)
                           THEN QMDraws ELSE {SHADOW_QM_MIN}) :
            LET r == LootPlayer(p1, heap["monster"], currentZoneId, gemRoll,
                                shadowRoll, pick, randomQM, clock)
            IN /\ heap' = [heap EXCEPT !["player"] = r.player]
               /\ lastCall' = [NoCall EXCEPT
                                 !.op = "generateLoot",
                                 !.thrown = r.thrown,
                                 !.messages = r.messages,
                                 !.args = [currentZoneId |-> currentZoneId,
                                           gemRoll |-> gemRoll,
                                           shadowRoll |-> shadowRoll,
                                           pick |-> pick,
                                           randomQM |-> randomQM,
                                           now |-> clock]]
  /\ lootCalls' = lootCalls + 1
  /\ UNCHANGED <<clock, edits, turns>>

\* Date.now() advances between two calls
Tick ==
  /\ clock <= MaxClock
  /\ clock' = clock + 1
  /\ UNCHANGED <<heap, lastCall, edits, turns, lootCalls>>

NextLoot ==
  \/ GenerateLoot
  \/ Tick

\* loot is generated for a player of any loadout after a fight with any monster
InitLoot ==
  /\ \E loadout \in Loadouts, monster \in Monsters :
        heap = Heap0(NewPlayer("Human", Undefined, loadout), monster)
  /\ clock = 1
  /\ lastCall = NoCall
  /\ edits = 0
  /\ turns = 0
  /\ lootCalls = 0

SpecLoot == InitLoot /\ [][NextLoot]_vars

\* statistics and single turns, with the callers' changes in between
NextStats ==
  \/ CalculateDerivedStats
  \/ ResolveCombatTurn
  \/ SetBaseStat
  \/ SetEquipment

SpecStats == Init /\ [][NextStats]_vars

\* combat: statistics, single turns and whole simulations
NextCombat ==
  \/ CalculateDerivedStats
  \/ ResolveCombatTurn
  \/ SimulateCombat

SpecCombat == Init /\ [][NextCombat]_vars

(***************************************************************************)
(* Properties                                                              *)
(***************************************************************************)
Simulated == lastCall.op = "simulateCombat" /\ lastCall.thrown = ""

FinalPlayer == heap[lastCall.finalState.player]

FinalMonster == heap[lastCall.finalState.monster]

\* C1: simulateCombat resolves at most 100 turns; when no turn ends in
\* VICTORY or DEFEAT the outcome is STALEMATE, exactly 100 turns were
\* resolved, and the log is the start line, the player line and the monster
\* line of each of the turns 1..100 in order, and one halting entry.
C1_TurnCap ==
  Simulated =>
    /\ lastCall.calls <= 100
    /\ lastCall.status \notin {"VICTORY", "DEFEAT"} =>
         /\ lastCall.status = "STALEMATE"
         /\ lastCall.calls = 100
         /\ Len(lastCall.log) = 202
         /\ lastCall.log[1].kind = "start"
         /\ \A t \in 1..100 :
              /\ lastCall.log[2 * t].kind = "playerAttack"
              /\ lastCall.log[2 * t].turn = t
              /\ lastCall.log[2 * t + 1].kind = "monsterAttack"
              /\ lastCall.log[2 * t + 1].turn = t
         /\ lastCall.log[202].kind = "halt"

\* a simulation that ran into the cap while both sides lost hit points
C1_Witness ==
  /\ Simulated
  /\ lastCall.status = "STALEMATE"
  /\ lastCall.calls = 100
  /\ lastCall.log[2].damage > 0
  /\ lastCall.log[3].damage > 0

\* C2: a simulateCombat call leaves the caller's player and monster objects
\* as they were (the base monster never gets a currentHP), and the objects of
\* finalState are other objects than the caller's.
C2_NoMutation ==
  [][lastCall'.op = "simulateCombat" =>
       /\ heap'["player"] = heap["player"]
       /\ heap'["monster"] = heap["monster"]
       /\ heap'["monster"].currentHP = Undefined
       /\ lastCall'.thrown = "" =>
            /\ lastCall'.finalState.player \notin {"player", "monster", "foe"}
            /\ lastCall'.finalState.monster \notin {"player", "monster", "foe"}]_vars

\* a simulation that changed the hp of both copies
C2_Witness ==
  /\ Simulated
  /\ lastCall.calls >= 2
  /\ FinalPlayer.hp # heap["player"].hp
  /\ FinalMonster.currentHP # Num(heap["monster"].hp)

\* the log of a simulation won on turn t ends with the player's line of turn
\* t and the defeat of the monster, has no monster line of turn t, and the
\* final hp of the player is the one after turn t - 1
C8_SimulatedVictory ==
  (Simulated /\ lastCall.status = "VICTORY") =>
    LET log == lastCall.log
        n == Len(log)
        t == log[n].turn
    IN /\ log[n].kind = "monsterDefeated"
       /\ log[n - 1].kind = "playerAttack"
       /\ log[n - 1].turn = t
       /\ \A i \in 1..n : ~(log[i].kind = "monsterAttack" /\ log[i].turn = t)
       /\ IF t = 1
          THEN FinalPlayer.hp = heap["player"].hp
          ELSE /\ log[n - 2].kind = "monsterAttack"
               /\ log[n - 2].turn = t - 1
               /\ FinalPlayer.hp = Num(log[n - 2].hpAfter)

\* C8: a turn that ends in VICTORY reports damageTaken = 0 and leaves the hp
\* of the player as it was; the last turn of a simulation that ends in
\* VICTORY logs no monster line and leaves the hp of the previous turn.
C8_NoFinalHit ==
  [][/\ (lastCall'.op = "resolveCombatTurn" /\ lastCall'.status = "VICTORY") =>
          /\ lastCall'.damageTaken = 0
          /\ heap'["player"].hp = heap["player"].hp
     /\ C8_SimulatedVictory']_vars

\* a simulation won after the first turn against a monster whose hit would
\* have hurt
C8_Witness ==
  /\ Simulated
  /\ lastCall.status = "VICTORY"
  /\ lastCall.calls >= 2
  /\ MonsterDamage(FinalPlayer, FinalMonster) > 0
  /\ Val(FinalPlayer.hp) > 0

\* C10: the outcome of simulateCombat is VICTORY, DEFEAT or STALEMATE:
\* VICTORY exactly when the final monster has currentHP = 0, DEFEAT exactly
\* when it has currentHP > 0 and the final player has hp = 0, STALEMATE
\* exactly when both are above 0, which is after turn 100.
C10_OutcomeAgrees ==
  Simulated =>
    LET mhp == Val(FinalMonster.currentHP)
        php == Val(FinalPlayer.hp)
    IN /\ lastCall.status \in {"VICTORY", "DEFEAT", "STALEMATE"}
       /\ lastCall.status = "VICTORY" <=> mhp = 0
       /\ lastCall.status = "DEFEAT" <=> (mhp > 0 /\ php = 0)
       /\ lastCall.status = "STALEMATE" <=> (mhp > 0 /\ php > 0)
       /\ lastCall.status = "STALEMATE" => lastCall.calls = 100

\* a simulation lost after several turns
C10_Witness ==
  /\ Simulated
  /\ lastCall.status = "DEFEAT"
  /\ lastCall.calls >= 2
  /\ Val(FinalPlayer.hp) = 0
  /\ Val(FinalMonster.currentHP) > 0

\* C3: a generateLoot call whose gem roll succeeds returns normally, with
\* exactly one gem of the zone's grade appended to player.gems and a gem
\* message; a call whose gem roll fails leaves player.gems as it was.
C3_GemDrop ==
  [][lastCall'.op = "generateLoot" =>
       LET before == heap["player"].gems
           after == heap'["player"].gems
       IN IF lastCall'.args.gemRoll
          THEN /\ lastCall'.thrown = ""
               /\ Len(after) = Len(before) + 1
               /\ SubSeq(after, 1, Len(before)) = before
               /\ after[Len(after)].grade = GemGradeTier(lastCall'.args.currentZoneId)
               /\ \E i \in 1..Len(lastCall'.messages) :
                     lastCall'.messages[i].kind = "gem"
          ELSE after = before]_vars

\* C4: calculateDerivedStats on a player whose race is not in the race table
\* leaves every field of the player as it was.
C4_UnknownRaceUnchanged ==
  [][(lastCall'.op = "calculateDerivedStats" /\ heap["player"].race \notin RaceKeys)
       => heap'["player"] = heap["player"]]_vars

\* C5: after a calculateDerivedStats or resolveCombatTurn call on a player of
\* a known race, whatever hp the player had before, 0 <= hp <= maxHp and the
\* monster's currentHP >= 0.
C5_HpWithinBounds ==
  (/\ lastCall.op \in {"calculateDerivedStats", "resolveCombatTurn"}
   /\ lastCall.thrown = ""
   /\ heap["player"].race \in RaceKeys) =>
    /\ heap["player"].hp # Undefined
    /\ heap["player"].derivedStats # Undefined
    /\ 0 <= Val(heap["player"].hp)
    /\ Val(heap["player"].hp) <= Val(Val(heap["player"].derivedStats).maxHp)
    /\ Val(heap["foe"].currentHP) >= 0

\* the items every loadout owns before the first drop
OwnedAtStart == 1..3

\* the positions in the inventory of the drops made for a base item
DropsFor(inventory, base) ==
  {i \in 1..Len(inventory) : i \notin OwnedAtStart /\ inventory[i].baseItemId = base}

\* for a base item of which no Shadow was owned at the start, the first drop
\* is a Shadow and every later one an Echo with the quality multiplier ECHO_QM
C6_FirstShadowThenEcho ==
  LET inventory == heap["player"].inventory
  IN \A base \in {inventory[i].baseItemId : i \in 1..Len(inventory)} :
       (~\E j \in OwnedAtStart :
            inventory[j].baseItemId = base /\ inventory[j].type = "Shadow")
       => \A i \in DropsFor(inventory, base) :
            IF i = MinOf(DropsFor(inventory, base))
            THEN inventory[i].type = "Shadow"
            ELSE /\ inventory[i].type = "Echo"
                 /\ inventory[i].qualityMultiplier = Num(ECHO_QM)

\* C6: without a Shadow of base item B at the start, the first drop chosen
\* for B is a Shadow and every later one an Echo with ECHO_QM; a call creates
\* at most one item, only when its roll succeeded and a Dropper is equipped,
\* and the item has the base item of an equipped Dropper.
C6_ShadowThenEcho ==
  [][lastCall'.op = "generateLoot" =>
       LET before == heap["player"].inventory
           after == heap'["player"].inventory
           droppers == {i \in 1..Len(before) :
                          /\ before[i].type = "Dropper"
                          /\ \E s \in Slots :
                               /\ heap["player"].equipment[s] = before[i].instanceId
                               /\ \A j \in 1..(i - 1) :
                                    before[j].instanceId # before[i].instanceId}
       IN /\ \/ after = before
             \/ /\ Len(after) = Len(before) + 1
                /\ SubSeq(after, 1, Len(before)) = before
                /\ lastCall'.args.shadowRoll
                /\ droppers # {}
                /\ after[Len(after)].baseItemId \in {before[i].baseItemId : i \in droppers}
                /\ after[Len(after)].type \in {"Shadow", "Echo"}
          /\ C6_FirstShadowThenEcho']_vars

\* a Shadow and then an Echo were dropped for a base item of which no Shadow
\* was owned at the start, and a Shadow for another base item after that
C6_Witness ==
  LET inventory == heap["player"].inventory
  IN /\ Len(inventory) = 6
     /\ inventory[4].type = "Shadow"
     /\ inventory[5].type = "Echo"
     /\ inventory[5].baseItemId = inventory[4].baseItemId
     /\ inventory[6].type = "Shadow"
     /\ \A j \in OwnedAtStart : inventory[j].type = "Dropper"

\* C7: the items of player.inventory have pairwise distinct instance ids.
C7_DistinctInstanceIds ==
  LET inventory == heap["player"].inventory
  IN \A i, j \in 1..Len(inventory) :
       i # j => inventory[i].instanceId # inventory[j].instanceId

\* C9: after calculateDerivedStats on a player of a known race, WC and SC are
\* the gear totals scaled by VIT when the race has specialCase set and by the
\* race's primaryStat otherwise, for the three archetypes alike (a True
\* Fighter has SC = 0, a True Caster WC = 0).
C9_ScalingStat ==
  (lastCall.op = "calculateDerivedStats" /\ heap["player"].race \in RaceKeys) =>
    LET player == heap["player"]
        racialData == races[player.race]
        t == GearTotals(player)
        scalingStat == IF racialData.specialCase THEN player.baseStats.VIT
                       ELSE player.baseStats[ToUpperCase(racialData.primaryStat)]
        wc == t.totalGearWC * (10000 + scalingStat * 55) * t.bonusWcScMultiplier
        sc == t.totalGearSC * (10000 + scalingStat * 55) * t.bonusWcScMultiplier
    IN /\ Val(player.derivedStats).WC =
            Num(IF racialData.archetype = "True Caster" THEN 0 ELSE wc)
       /\ Val(player.derivedStats).SC =
            Num(IF racialData.archetype = "True Fighter" THEN 0 ELSE sc)

====
